---- MODULE Spec2Model ----
(***************************************************************************)
(* nostr-poster (src/index.js): one postToNostr call.                      *)
(*                                                                         *)
(* The call validates its options, builds and signs the event, opens one   *)
(* publishToRelay retry sequence per relay (Promise.allSettled over        *)
(* relays.map), and aggregates the settled outcomes.  JavaScript runs each *)
(* callback to completion, and promise continuations (microtasks) run      *)
(* before the next timer or socket callback, so one action is one callback *)
(* together with the continuations it resumes.                             *)
(*                                                                         *)
(* Time is abstract: a timer is armed with a duration and fires at some    *)
(* later step.  options.maxRetries and options.powDifficulty are integers  *)
(* here.                                                                   *)
(*                                                                         *)
(* Three specifications share the actions.  Spec is the whole call over    *)
(* every relay list, mining under a hash function that accepts the first   *)
(* nonce.  ConnSpec is the call to a single relay with every socket and    *)
(* timer callback observed, those arriving after settlement included.      *)
(* PowSpec is validation and mining up to the start of publishing, under   *)
(* every hash function and clock, with the options of the call observed.   *)
(* In Spec and ConnSpec the one pass of the mining loop takes no time.     *)
(***************************************************************************)
EXTENDS Integers, Sequences, FiniteSets, TLC

\* ---------------------------------------------------------------- bounds
MaxRelays == 2        \* longest options.relays array a caller passes
MaxRetriesOpt == 2    \* largest options.maxRetries a caller passes
MaxPowOpt == 2        \* largest small options.powDifficulty a caller passes
MaxPowAttempts == 2   \* the nonce ceiling of calculatePow, 10000000 in the source
YieldBatch == 2       \* the batch of the yield test, 1000 in the source

\* ------------------------------------------------------ program constants
MAX_RETRIES == 3            \* const MAX_RETRIES
MaxRetriesCeiling == 10     \* Math.min(..., 10)
MaxRetriesFloor == 1        \* Math.max(1, ...)
BackoffBase == 1000         \* 1000 * Math.pow(2, attempt - 1)
DEFAULT_POW_DIFFICULTY == 2 \* const DEFAULT_POW_DIFFICULTY
PowDifficultyCeiling == 32  \* Math.min(..., 32)
PowDifficultyFloor == 0     \* Math.max(0, ...)
YieldSliceMs == 10          \* Date.now() - startTime > 10

\* ------------------------------------------------------------- JS values
\* JSON values are written by their text; no string used below collides with
\* the text of a literal.
Undefined == "undefined"
Null == "null"

Truthy(v) == v \notin {Undefined, Null, "false", "", "0"}

Max(a, b) == IF a >= b THEN a ELSE b
Min(a, b) == IF a <= b THEN a ELSE b

\* ------------------------------------------------------------ relay URLs
\* A relay entry is its scheme and the rest of the URL.
RelayA == [scheme |-> "wss", host |-> "a"]
RelayB == [scheme |-> "wss", host |-> "b"]
RelayBad == [scheme |-> "ws", host |-> "c"]
NoRelay == [scheme |-> "", host |-> ""]

RelayEntries == {RelayA, RelayB, RelayBad}
RelayInputs == UNION {[1..n -> RelayEntries] : n \in 0..MaxRelays}
MaxRetriesInputs == (-1)..MaxRetriesOpt

\* r => typeof r === 'string' && r.startsWith('wss://')
IsWss(r) == r.scheme = "wss"

SanitizeRelays(optRelays) == SelectSeq(optRelays, IsWss)

\* Math.max(1, Math.min(Number(options.maxRetries) || MAX_RETRIES, 10))
SanitizeMaxRetries(opt) ==
    Max(MaxRetriesFloor, Min(IF opt = 0 THEN MAX_RETRIES ELSE opt, MaxRetriesCeiling))

\* options.powDifficulty as a caller passes it, an integer.
PowDifficultyInputs ==
    ((-1)..MaxPowOpt) \cup {PowDifficultyCeiling, PowDifficultyCeiling + 1}

\* Math.max(0, Math.min(Number(options.powDifficulty) || DEFAULT_POW_DIFFICULTY, 32))
SanitizePowDifficulty(opt) ==
    Max(PowDifficultyFloor,
        Min(IF opt = 0 THEN DEFAULT_POW_DIFFICULTY ELSE opt, PowDifficultyCeiling))

\* ---------------------------------------------------------------- frames
\* The signed event's id, and the id of some other event.
EventId == "id1"
OtherId == "id2"

\* What a relay may send: data that JSON.parse rejects, or a JSON array.
Frames ==
    { [parses |-> FALSE, json |-> <<>>],
      [parses |-> TRUE, json |-> <<"OK", EventId, "true", "">>],
      [parses |-> TRUE, json |-> <<"OK", EventId, "false", "blocked">>],
      [parses |-> TRUE, json |-> <<"OK", EventId, "false", "">>],
      [parses |-> TRUE, json |-> <<"OK", EventId>>],
      [parses |-> TRUE, json |-> <<"OK", EventId, "true", "", "extra">>],
      [parses |-> TRUE, json |-> <<"OK", OtherId, "true", "">>],
      [parses |-> TRUE, json |-> <<"NOTICE", "hi">>] }

\* const [type, id, success, message] = JSON.parse(data)
Elem(json, n) == IF n <= Len(json) THEN json[n] ELSE Undefined

\* Variant: the id of the frame is not compared.
IsAckAnyId(frame) ==
    /\ frame.parses
    /\ Elem(frame.json, 1) = "OK"

\* type === "OK" && id === signedEvent.id
IsAck(frame) ==
    /\ frame.parses
    /\ Elem(frame.json, 1) = "OK"
    /\ Elem(frame.json, 2) = EventId

\* { relay: relayUrl, success: !!success, message: message || null }
AckResult(relayUrl, frame) ==
    [relay |-> relayUrl,
     success |-> Truthy(Elem(frame.json, 3)),
     message |-> IF Truthy(Elem(frame.json, 4)) THEN Elem(frame.json, 4) ELSE Null]

NoValue == [relay |-> NoRelay, success |-> FALSE, message |-> Undefined]

\* new Error(...) of one attempt: which reject site built it, for which relay,
\* in which attempt (the identity of the Error object).
ErrorKinds == {"timeout", "send", "websocket"}
MakeError(kind, relayUrl, attempt) ==
    [kind |-> kind, relay |-> relayUrl, attempt |-> attempt]
NoError == [kind |-> "none", relay |-> NoRelay, attempt |-> 0]

\* error.message: the text names the reject site and the relay only.
ErrorMessage(e) == [kind |-> e.kind, relay |-> e.relay]

\* How connectAndPublish's promise settles.
Resolved(v) == [type |-> "resolve", value |-> v, error |-> NoError]
Rejected(e) == [type |-> "reject", value |-> NoValue, error |-> e]

\* --------------------------------------------------------- calculatePow
\* String(n) of a natural number: its decimal text.
DecimalDigits == <<"0", "1", "2", "3", "4", "5", "6", "7", "8", "9">>
RECURSIVE String(_)
String(n) ==
    IF n < 10 THEN DecimalDigits[n + 1]
    ELSE String(n \div 10) \o DecimalDigits[(n % 10) + 1]

\* An event is its kind and its tags; a tag is a tuple of strings.
NoEvent == [kind |-> 0, tags |-> <<>>]
EventInputs ==
    { [kind |-> 1, tags |-> <<>>],
      [kind |-> 1, tags |-> << <<"t", "nostr">> >>] }

\* calculatePow takes any event: also one that already carries nonce tags, which
\* no content makes postToNostr build.
PowEventInputs ==
    EventInputs \cup
    { [kind |-> 1,
       tags |-> << <<"nonce", "7", "1">>, <<"t", "nostr">>, <<"nonce", "0", "2">> >>] }

\* tag[0] !== "nonce"
NotNonceTag(tag) == tag[1] # "nonce"
NonceTags(e) == SelectSeq(e.tags, LAMBDA tag : ~NotNonceTag(tag))

\* ["nonce", String(nonce), String(difficulty)]
NonceTag(nonce, difficulty) == <<"nonce", String(nonce), String(difficulty)>>

\* A hash is its hex digits, most significant first; the 64 digits of a SHA-256
\* are shortened to two.
NoHash == <<>>
Hashes == { <<0, 0>>, <<0, 8>>, <<1, 0>>, <<8, 0>> }

\* The nonce texts calculatePow can hash before its ceiling stops it.
NonceTexts == {String(n) : n \in 0..MaxPowAttempts}
HashFunctions == [NonceTexts -> Hashes]

\* getEventHash(e) under hash function h: e is hashed with the nonce tag the
\* loop gave it; any other event hashes to a value without a leading zero.
GetEventHash(h, e) ==
    LET ns == NonceTags(e) IN
    IF Len(ns) = 1 /\ ns[1][2] \in DOMAIN h THEN h[ns[1][2]] ELSE <<8, 0>>

\* Variant: the target is one zero short.
TargetPrefixShort(difficulty) == [k \in 1..(difficulty - 1) |-> 0]

\* const targetPrefix = "0".repeat(difficulty);
TargetPrefix(difficulty) == [k \in 1..difficulty |-> 0]

\* hash.startsWith(targetPrefix)
StartsWith(hash, prefix) ==
    /\ Len(prefix) <= Len(hash)
    /\ SubSeq(hash, 1, Len(prefix)) = prefix

\* Variant: difficulty 0 is mined like any other.
NeverSkipped(difficulty) == FALSE

\* if (difficulty === 0) return event;
IsZeroDifficulty(difficulty) == difficulty = 0

\* Variant: no ceiling on the attempts.
NoCeiling(nonce) == FALSE

\* if (nonce > 10000000) throw ...
ExceededAttempts(nonce) == nonce > MaxPowAttempts

PowExceeded(difficulty) ==
    "POW calculation exceeded maximum attempts for difficulty " \o String(difficulty)

\* calculatePow's locals before its first iteration, and before it is called.
\* elapsed is Date.now() - startTime, kept up to the first value above the slice;
\* hashes counts the getEventHash calls, sinceYield those made since the loop
\* started or last gave up control.
NoPow ==
    [workEvent |-> NoEvent, nonce |-> 0, hash |-> NoHash, hashes |-> 0,
     elapsed |-> 0, sinceYield |-> 0]
NewPow(e) ==
    [workEvent |-> e, nonce |-> 0, hash |-> NoHash, hashes |-> 0,
     elapsed |-> 0, sinceYield |-> 0]

\* The milliseconds one pass of the loop may take.
ClockSteps == {0, 6}

\* One pass of the do-while body up to the ceiling test: drop the nonce tags,
\* push the new one, hash, nonce++; the clock moves on by dt meanwhile.
PowPass(w, difficulty, h, dt) ==
    LET tags == Append(SelectSeq(w.workEvent.tags, NotNonceTag),
                       NonceTag(w.nonce, difficulty))
        we == [w.workEvent EXCEPT !.tags = tags]
    IN  [workEvent |-> we,
         nonce |-> w.nonce + 1,
         hash |-> GetEventHash(h, we),
         hashes |-> w.hashes + 1,
         elapsed |-> Min(w.elapsed + dt, YieldSliceMs + 1),
         sinceYield |-> w.sinceYield + 1]

\* Variant: the loop works on the caller's object, which so becomes workEvent.
CallerEventShared(e, workEvent) == workEvent

\* const workEvent = { ...event, tags: [...event.tags] }: the loop assigns to
\* the copy's tags and pushes to the copy's array; the caller's event e stays.
CallerEvent(e, workEvent) == e

\* if (nonce % 1000 === 0 && Date.now() - startTime > 10)
YieldDue(w) == w.nonce % YieldBatch = 0 /\ w.elapsed > YieldSliceMs

\* ----------------------------------------------------------------- state
VARIABLES
    pc,          \* postToNostr: "idle", "prepared", "mining", "yielding", "mined",
                 \*              "publishing", "returned", "thrown"
    relays,      \* validatedOptions.relays
    maxRetries,  \* validatedOptions.maxRetries
    conn,        \* per relay: the current connectAndPublish closure
    task,        \* per relay: the publishToRelay frame and its promise
    ackAt,       \* per relay: the attempt whose matching OK frame settled it (0: none)
    waited,      \* per relay: sum of the backoff delays that have elapsed
    result,      \* the object postToNostr returns
    thrown,      \* the Error postToNostr throws
    powDifficulty, \* validatedOptions.powDifficulty
    event,       \* postToNostr: the event object handed to calculatePow
    pow,         \* calculatePow's frame: workEvent, nonce, hash, getEventHash calls
    powReturn,   \* the event calculatePow returned
    hashOf,      \* getEventHash, by the nonce text the hashed event carries
    obs          \* observer: the last call or callback and what it was given

powVars == <<powDifficulty, event, pow, powReturn, hashOf>>

vars == <<pc, relays, maxRetries, conn, task, ackAt, waited, result, thrown,
          powVars, obs>>

Indices == DOMAIN relays

NoResult ==
    [publishedTo |-> 0, totalRelays |-> 0, successfulRelays |-> <<>>,
     failedRelays |-> <<>>, retriesUsed |-> 0]
NoThrow == [message |-> "none"]

\* Variant: the attempt's timer is never armed.
NewConnNoTimer ==
    [readyState |-> "CONNECTING", hasResolved |-> FALSE, timeoutId |-> FALSE,
     cleanups |-> 0]

\* new WebSocket(relayUrl); let timeoutId; let hasResolved = false; setTimeout(...)
\* cleanups counts the runs of cleanup() in this attempt.
NewConn ==
    [readyState |-> "CONNECTING", hasResolved |-> FALSE, timeoutId |-> TRUE,
     cleanups |-> 0]

\* Variant: cleanup() clears the timer and leaves the socket alone.
CleanupTimerOnly(c) ==
    [c EXCEPT !.timeoutId = FALSE, !.cleanups = @ + 1]

\* cleanup(): clear the timer; close the socket when OPEN or CONNECTING
Cleanup(c) ==
    [c EXCEPT !.timeoutId = FALSE,
              !.cleanups = @ + 1,
              !.readyState = IF @ \in {"OPEN", "CONNECTING"} THEN "CLOSING" ELSE @]

\* Variant: the attempt is settled and cleanup() is not called.
SettleWithoutCleanup(c) == [c EXCEPT !.hasResolved = TRUE]

\* hasResolved = true; cleanup();
Settle(c) == Cleanup([c EXCEPT !.hasResolved = TRUE])

\* What the observer holds before anything happened.
NoFrame == [parses |-> FALSE, json |-> <<"none">>]
NoObs ==
    [event |-> "none", frame |-> NoFrame, wasPending |-> FALSE,
     optRelays |-> <<>>, optPowDifficulty |-> 0, input |-> NoEvent]

\* The state before postToNostr is called, getEventHash being h.
Idle(h) ==
    /\ pc = "idle"
    /\ powDifficulty = 0
    /\ event = NoEvent
    /\ pow = NoPow
    /\ powReturn = NoEvent
    /\ hashOf = h
    /\ obs = NoObs
    /\ relays = <<>>
    /\ maxRetries = 0
    /\ conn = <<>>
    /\ task = <<>>
    /\ ackAt = <<>>
    /\ waited = <<>>
    /\ result = NoResult
    /\ thrown = NoThrow

\* A getEventHash under which the first nonce qualifies at any difficulty a
\* two-digit hash can meet.
EasyHash == [t \in NonceTexts |-> <<0, 0>>]

Init == Idle(EasyHash)

\* ------------------------------------------------------- publishToRelay
\* Variant: an acknowledgment with success = false is retried like an error.
RetriesOnRejection(s) == s.type = "reject" \/ ~s.value.success

\* try { return await connectAndPublish(...) } catch (error) { ... }: only a
\* rejection reaches the catch clause; a resolved ack of either flag is returned.
Retries(s) == s.type = "reject"

\* if (attempt === maxRetries) throw error;
IsLastAttempt(attempt, max) == attempt = max

\* Variant: the exponent is attempt, not attempt - 1.
DelayFromAttempt(attempt) == BackoffBase * 2^attempt

\* const delay = 1000 * Math.pow(2, attempt - 1);
Delay(attempt) == BackoffBase * 2^(attempt - 1)

NewTask ==
    [attempt |-> 1, phase |-> "attempt", delay |-> 0,
     value |-> NoValue, reason |-> NoError]

\* Variant: the first error is kept and thrown when the attempts run out.
AfterAttemptFirstError(t, s, max) ==
    IF s.type # "reject"
    THEN [t EXCEPT !.phase = "returned", !.value = s.value]
    ELSE IF t.attempt = max
         THEN [t EXCEPT !.phase = "thrown",
                        !.reason = IF @ = NoError THEN s.error ELSE @]
         ELSE [t EXCEPT !.phase = "backoff",
                        !.delay = BackoffBase * 2^(t.attempt - 1),
                        !.reason = IF @ = NoError THEN s.error ELSE @]

\* publishToRelay resumed with the settlement s of its current attempt.
AfterAttempt(t, s, max) ==
    IF ~Retries(s)
    THEN [t EXCEPT !.phase = "returned", !.value = s.value]
    ELSE IF IsLastAttempt(t.attempt, max)
         THEN [t EXCEPT !.phase = "thrown", !.reason = s.error]
         ELSE [t EXCEPT !.phase = "backoff", !.delay = Delay(t.attempt)]

\* The backoff timer fired: attempt++, then the loop test attempt <= maxRetries.
AfterBackoff(t, max) ==
    IF t.attempt + 1 <= max
    THEN [t EXCEPT !.attempt = @ + 1, !.phase = "attempt", !.delay = 0]
    ELSE [t EXCEPT !.phase = "returned", !.delay = 0, !.value = NoValue]

\* ----------------------------------------------------------- postToNostr
\* Variant: the relays are published to one after the other.
RunningInTurn(i) ==
    /\ pc = "publishing"
    /\ i \in Indices
    /\ \A j \in 1..(i - 1) : task[j].phase \in {"returned", "thrown"}

\* relays.map(async relayUrl => publishToRelay(...)): every relay's sequence is
\* started in the same turn and none awaits another.
Running(i) == pc = "publishing" /\ i \in Indices

\* Variant: the wait ends with the first relay that settles.
AnySettled(t) == \E i \in DOMAIN t : t[i].phase \in {"returned", "thrown"}

\* await Promise.allSettled(...)
AllSettled(t) == \A i \in DOMAIN t : t[i].phase \in {"returned", "thrown"}

IndexSeq(t) == [i \in 1..Len(t) |-> i]
FulfilledIdx(t) == SelectSeq(IndexSeq(t), LAMBDA i : t[i].phase = "returned")
RejectedIdx(t) == SelectSeq(IndexSeq(t), LAMBDA i : t[i].phase = "thrown")

\* result.status === "fulfilled": successfulRelays.push(result.value)
SuccessfulRelays(t) ==
    [k \in 1..Len(FulfilledIdx(t)) |-> t[FulfilledIdx(t)[k]].value]

\* Variant: a failure is named by its rank among the failures, not by its index.
FailedRelaysByRank(t, rs) ==
    [k \in 1..Len(SelectSeq([i \in 1..Len(t) |-> i], LAMBDA i : t[i].phase = "thrown")) |->
        [relay |-> rs[k],
         error |-> [kind |-> "none", relay |-> rs[k]]]]

\* else failedRelays.push({ relay: relays[index], error: result.reason.message })
FailedRelays(t, rs) ==
    [k \in 1..Len(RejectedIdx(t)) |->
        [relay |-> rs[RejectedIdx(t)[k]],
         error |-> ErrorMessage(t[RejectedIdx(t)[k]].reason)]]

NoRelayAccepted == "Failed to publish to any relay"
NoValidRelays == "No valid relay URLs provided"

\* catch (error) { ... } of postToNostr: new Error(prefix + error.message), or
\* the error itself; either way an Error that carries a message only.
CatchRethrow(msg) ==
    IF \E d \in 0..PowDifficultyCeiling : msg = PowExceeded(d)
    THEN [message |-> "Proof of Work failed: " \o msg]
    ELSE IF msg = NoRelayAccepted
         THEN [message |-> "Network error: Failed to publish to any relay"]
         ELSE [message |-> msg]

\* Variant: an empty relay list is let through.
NeverEmpty(rs) == FALSE

\* if (sanitizedOptions.relays.length === 0) throw ...
NoRelaysLeft(rs) == Len(rs) = 0

\* postToNostr(nsec, content, options) up to validateAndSanitizeInputs.
PostToNostr(optRelays, optMaxRetries, optPowDifficulty) ==
    /\ pc = "idle"
    /\ LET rs == SanitizeRelays(optRelays) IN
       IF NoRelaysLeft(rs)
       THEN /\ pc' = "thrown"
            /\ thrown' = CatchRethrow(NoValidRelays)
            /\ UNCHANGED <<relays, maxRetries, powDifficulty>>
       ELSE /\ pc' = "prepared"
            /\ relays' = rs
            /\ maxRetries' = SanitizeMaxRetries(optMaxRetries)
            /\ powDifficulty' = SanitizePowDifficulty(optPowDifficulty)
            /\ UNCHANGED thrown
    /\ UNCHANGED <<conn, task, ackAt, waited, result, event, pow, powReturn, hashOf>>

\* The event e is built and calculatePow(event, powDifficulty) is entered; the
\* first yield test finds nonce 0 and no time elapsed.
PowStart(e) ==
    /\ pc = "prepared"
    /\ event' = e
    /\ IF IsZeroDifficulty(powDifficulty)
       THEN /\ pc' = "mined"
            /\ powReturn' = e
            /\ UNCHANGED pow
       ELSE /\ pc' = "mining"
            /\ pow' = NewPow(e)
            /\ UNCHANGED powReturn
    /\ UNCHANGED <<relays, maxRetries, conn, task, ackAt, waited, result, thrown,
                   powDifficulty, hashOf>>

\* One iteration of the do-while loop of calculatePow, taking dt ms, from after
\* its yield test to the yield test of the next iteration.  The second conjunct
\* caps the counter; the ceiling test below keeps the loop well inside it.
PowIterate(dt) ==
    /\ pc = "mining"
    /\ pow.nonce <= MaxPowAttempts + 1
    /\ pow' = PowPass(pow, powDifficulty, hashOf, dt)
    /\ IF ExceededAttempts(pow'.nonce)
       THEN /\ pc' = "thrown"
            /\ thrown' = CatchRethrow(PowExceeded(powDifficulty))
            /\ UNCHANGED powReturn
       ELSE IF StartsWith(pow'.hash, TargetPrefix(powDifficulty))
            THEN /\ pc' = "mined"
                 /\ powReturn' = pow'.workEvent
                 /\ UNCHANGED thrown
            ELSE /\ pc' = IF YieldDue(pow') THEN "yielding" ELSE "mining"
                 /\ UNCHANGED <<powReturn, thrown>>
    /\ event' = CallerEvent(event, pow'.workEvent)
    /\ UNCHANGED <<relays, maxRetries, conn, task, ackAt, waited, result,
                   powDifficulty, hashOf>>

\* await new Promise(resolve => setTimeout(resolve, 0)) is over: the loop goes on.
PowResume ==
    /\ pc = "yielding"
    /\ pc' = "mining"
    /\ pow' = [pow EXCEPT !.sinceYield = 0]
    /\ UNCHANGED <<relays, maxRetries, conn, task, ackAt, waited, result, thrown,
                   powDifficulty, event, powReturn, hashOf>>

\* The mined event is signed; relays.map starts every relay's first attempt
\* (connectAndPublish constructs its WebSocket and arms its timer).
Launch ==
    /\ pc = "mined"
    /\ pc' = "publishing"
    /\ conn' = [i \in Indices |-> NewConn]
    /\ task' = [i \in Indices |-> NewTask]
    /\ ackAt' = [i \in Indices |-> 0]
    /\ waited' = [i \in Indices |-> 0]
    /\ UNCHANGED <<relays, maxRetries, result, thrown, powVars>>

\* The attempt of relay i settles with s, its closure state becoming c.
SettleAttempt(i, c, s) ==
    /\ conn' = [conn EXCEPT ![i] = Settle(c)]
    /\ task' = [task EXCEPT ![i] = AfterAttempt(task[i], s, maxRetries)]

\* ws.on("open"): ws.send(...) returns or throws.
WsOpen(i) ==
    /\ Running(i)
    /\ conn[i].readyState = "CONNECTING"
    /\ \E sendThrows \in BOOLEAN :
         LET c == [conn[i] EXCEPT !.readyState = "OPEN"] IN
         IF sendThrows /\ ~c.hasResolved
         THEN SettleAttempt(i, c,
                  Rejected(MakeError("send", relays[i], task[i].attempt)))
         ELSE conn' = [conn EXCEPT ![i] = c] /\ UNCHANGED task
    /\ UNCHANGED <<pc, relays, maxRetries, ackAt, waited, result, thrown, powVars>>

\* ws.on("message")
WsMessage(i, frame) ==
    /\ Running(i)
    /\ conn[i].readyState \in {"OPEN", "CLOSING"}
    /\ IF ~conn[i].hasResolved /\ IsAck(frame)
       THEN /\ SettleAttempt(i, conn[i], Resolved(AckResult(relays[i], frame)))
            /\ ackAt' = [ackAt EXCEPT ![i] = task[i].attempt]
       ELSE UNCHANGED <<conn, task, ackAt>>
    /\ UNCHANGED <<pc, relays, maxRetries, waited, result, thrown, powVars>>

\* ws.on("error"); the library may have moved the socket on before it emits.
WsError(i) ==
    /\ Running(i)
    /\ conn[i].readyState \in {"CONNECTING", "OPEN"}
    /\ \E rs \in {conn[i].readyState, "CLOSING", "CLOSED"} :
         LET c == [conn[i] EXCEPT !.readyState = rs] IN
         IF ~c.hasResolved
         THEN SettleAttempt(i, c,
                  Rejected(MakeError("websocket", relays[i], task[i].attempt)))
         ELSE conn' = [conn EXCEPT ![i] = c] /\ UNCHANGED task
    /\ UNCHANGED <<pc, relays, maxRetries, ackAt, waited, result, thrown, powVars>>

\* The relay closes an open socket cleanly; no "close" listener is registered.
WsClose(i) ==
    /\ Running(i)
    /\ conn[i].readyState = "OPEN"
    /\ conn' = [conn EXCEPT ![i].readyState = "CLOSED"]
    /\ UNCHANGED <<pc, relays, maxRetries, task, ackAt, waited, result, thrown, powVars>>

\* The setTimeout(..., timeout) callback.
Timeout(i) ==
    /\ Running(i)
    /\ conn[i].timeoutId
    /\ IF ~conn[i].hasResolved
       THEN SettleAttempt(i, conn[i],
                Rejected(MakeError("timeout", relays[i], task[i].attempt)))
       ELSE conn' = [conn EXCEPT ![i].timeoutId = FALSE] /\ UNCHANGED task
    /\ UNCHANGED <<pc, relays, maxRetries, ackAt, waited, result, thrown, powVars>>

\* The backoff setTimeout(resolve, delay) fired: the loop goes round.
BackoffElapsed(i) ==
    /\ Running(i)
    /\ task[i].phase = "backoff"
    /\ waited' = [waited EXCEPT ![i] = @ + task[i].delay]
    /\ task' = [task EXCEPT ![i] = AfterBackoff(task[i], maxRetries)]
    /\ conn' = [conn EXCEPT ![i] = IF task'[i].phase = "attempt" THEN NewConn ELSE @]
    /\ UNCHANGED <<pc, relays, maxRetries, ackAt, result, thrown, powVars>>

\* Promise.allSettled resolved: partition, then throw or build the result.
Aggregate ==
    /\ pc = "publishing"
    /\ AllSettled(task)
    /\ LET successfulRelays == SuccessfulRelays(task)
           failedRelays == FailedRelays(task, relays)
       IN  IF Len(successfulRelays) = 0
           THEN /\ pc' = "thrown"
                /\ thrown' = CatchRethrow(NoRelayAccepted)
                /\ UNCHANGED result
           ELSE /\ pc' = "returned"
                /\ result' = [publishedTo |-> Len(successfulRelays),
                              totalRelays |-> Len(relays),
                              successfulRelays |-> successfulRelays,
                              failedRelays |-> failedRelays,
                              retriesUsed |-> maxRetries]
                /\ UNCHANGED thrown
    /\ UNCHANGED <<relays, maxRetries, conn, task, ackAt, waited, powVars>>

RelayStep(i) ==
    \/ WsOpen(i)
    \/ \E frame \in Frames : WsMessage(i, frame)
    \/ WsError(i)
    \/ WsClose(i)
    \/ Timeout(i)
    \/ BackoffElapsed(i)

\* The event of a call whose content has no hashtag, link or mention.
PlainEvent == [kind |-> 1, tags |-> <<>>]

\* One postToNostr call with powDifficulty at its default, under EasyHash.
Next ==
    \/ \E optRelays \in RelayInputs, optMaxRetries \in MaxRetriesInputs :
          PostToNostr(optRelays, optMaxRetries, DEFAULT_POW_DIFFICULTY) /\ UNCHANGED obs
    \/ PowStart(PlainEvent) /\ UNCHANGED obs
    \/ PowIterate(0) /\ UNCHANGED obs
    \/ Launch /\ UNCHANGED obs
    \/ \E i \in Indices : WsOpen(i) /\ UNCHANGED obs
    \/ \E i \in Indices, frame \in Frames : WsMessage(i, frame) /\ UNCHANGED obs
    \/ \E i \in Indices : WsError(i) /\ UNCHANGED obs
    \/ \E i \in Indices : WsClose(i) /\ UNCHANGED obs
    \/ \E i \in Indices : Timeout(i) /\ UNCHANGED obs
    \/ \E i \in Indices : BackoffElapsed(i) /\ UNCHANGED obs
    \/ Aggregate /\ UNCHANGED obs

Spec == Init /\ [][Next]_vars

\* ------------------------------------------------- one relay, observed
\* The listener registered with ws.on("error") called after cleanup() began
\* to close the socket: the library reports an aborted handshake or a failure
\* of the closing socket.
WsErrorClosing(i) ==
    /\ Running(i)
    /\ conn[i].readyState = "CLOSING"
    /\ \E rs \in {"CLOSING", "CLOSED"} :
         LET c == [conn[i] EXCEPT !.readyState = rs] IN
         IF ~c.hasResolved
         THEN SettleAttempt(i, c,
                  Rejected(MakeError("websocket", relays[i], task[i].attempt)))
         ELSE conn' = [conn EXCEPT ![i] = c] /\ UNCHANGED task
    /\ UNCHANGED <<pc, relays, maxRetries, ackAt, waited, result, thrown, powVars>>

\* The observer notes which callback of relay i ran, the frame it was given and
\* whether the attempt was unsettled when it began.
Observed(kind, i, frame) ==
    [obs EXCEPT !.event = kind, !.frame = frame, !.wasPending = ~conn[i].hasResolved]

\* The timer of an attempt fires.
TimerFires == \E i \in Indices : Timeout(i) /\ obs' = Observed("timer", i, NoFrame)

\* One postToNostr call to a single relay, every callback observed, events
\* that arrive after the attempt settled included.
ConnNext ==
    \/ \E optMaxRetries \in MaxRetriesInputs :
          PostToNostr(<<RelayA>>, optMaxRetries, DEFAULT_POW_DIFFICULTY) /\ UNCHANGED obs
    \/ PowStart(PlainEvent) /\ UNCHANGED obs
    \/ PowIterate(0) /\ UNCHANGED obs
    \/ Launch /\ UNCHANGED obs
    \/ \E i \in Indices : WsOpen(i) /\ obs' = Observed("open", i, NoFrame)
    \/ \E i \in Indices, frame \in Frames :
          WsMessage(i, frame) /\ obs' = Observed("message", i, frame)
    \/ \E i \in Indices : WsError(i) /\ obs' = Observed("error", i, NoFrame)
    \/ \E i \in Indices : WsErrorClosing(i) /\ obs' = Observed("error", i, NoFrame)
    \/ \E i \in Indices : WsClose(i) /\ obs' = Observed("close", i, NoFrame)
    \/ TimerFires
    \/ \E i \in Indices : BackoffElapsed(i) /\ obs' = Observed("backoff", i, NoFrame)
    \/ Aggregate /\ UNCHANGED obs

\* An armed timer that is not cleared fires: the event loop runs its timers.
ConnSpec == Init /\ [][ConnNext]_vars /\ WF_vars(TimerFires)

\* ------------------------------------------------ validation and mining
\* options.relays as a caller passes it, for the calls that are mined.
PowRelayInputs == { <<>>, <<RelayBad>>, <<RelayA>>, <<RelayBad, RelayB>> }

PowInit == \E h \in HashFunctions : Idle(h)

\* The loop of calculatePow goes round.
PowLoops == \E dt \in ClockSteps : PowIterate(dt) /\ UNCHANGED obs

\* The loop is resumed after it yielded.
PowResumes == PowResume /\ UNCHANGED obs

\* One postToNostr call up to the start of publishing, under any getEventHash,
\* the options of the call observed.
PowNext ==
    \/ \E optRelays \in PowRelayInputs, optPowDifficulty \in PowDifficultyInputs :
          /\ PostToNostr(optRelays, 0, optPowDifficulty)
          /\ obs' = [obs EXCEPT !.event = "call",
                                 !.optRelays = optRelays,
                                 !.optPowDifficulty = optPowDifficulty]
    \/ \E e \in EventInputs : PowStart(e) /\ UNCHANGED obs
    \/ PowLoops
    \/ PowResumes
    \/ Launch /\ UNCHANGED obs

\* A running loop keeps running: it is synchronous code; the zero-delay timer
\* it awaits when it yields fires.
PowSpec == PowInit /\ [][PowNext]_vars /\ WF_vars(PowLoops) /\ WF_vars(PowResumes)

\* ------------------------------------------------- calculatePow alone
\* calculatePow(event, difficulty) is about to be called, for one relay and the
\* default retries, with any difficulty the validation lets through.
CalcInit ==
    /\ pc = "prepared"
    /\ powDifficulty \in PowDifficultyFloor..MaxPowOpt
    /\ hashOf \in HashFunctions
    /\ relays = <<RelayA>>
    /\ maxRetries = MAX_RETRIES
    /\ event = NoEvent
    /\ pow = NoPow
    /\ powReturn = NoEvent
    /\ obs = NoObs
    /\ conn = <<>>
    /\ task = <<>>
    /\ ackAt = <<>>
    /\ waited = <<>>
    /\ result = NoResult
    /\ thrown = NoThrow

\* One call of calculatePow on any event, the event it was given observed.
CalcNext ==
    \/ \E e \in PowEventInputs :
          PowStart(e) /\ obs' = [obs EXCEPT !.event = "mine", !.input = e]
    \/ PowLoops
    \/ PowResumes

CalcSpec == CalcInit /\ [][CalcNext]_vars

\* ================================================================ claims
Terminal(i) == task[i].phase \in {"returned", "thrown"}

\* Relay i's terminal acknowledgment carried success = true / false.
PositiveAck(i) == ackAt[i] # 0 /\ task[i].value.success
NegativeAck(i) == ackAt[i] # 0 /\ ~task[i].value.success

\* Relay i used up its attempts without an acknowledgment.
Exhausted(i) == task[i].phase = "thrown"

Completed == pc \in {"returned", "thrown"} /\ Indices # {}

NamesOf(entries) == {entries[k].relay : k \in DOMAIN entries}

\* C1: postToNostr returns a result only if some relay acknowledged the event
\* with success = true; when every relay exhausted its retries or answered with
\* success = false, the call fails with the no-relay-accepted error.
C1_ResultOnlyIfAccepted ==
    /\ pc = "returned" => \E i \in Indices : PositiveAck(i)
    /\ (Completed /\ \A i \in Indices : ~PositiveAck(i)) =>
          /\ pc = "thrown"
          /\ thrown = CatchRethrow(NoRelayAccepted)

\* C2: in the result, a relay whose acknowledgment carried success = false is in
\* failedRelays and not counted in publishedTo; successfulRelays holds only
\* acknowledgments with success = true.
C2_RejectionIsFailure ==
    pc = "returned" =>
       /\ \A k \in DOMAIN result.successfulRelays : result.successfulRelays[k].success
       /\ result.publishedTo = Cardinality({i \in Indices : PositiveAck(i)})
       /\ \A i \in Indices :
             NegativeAck(i) => relays[i] \in NamesOf(result.failedRelays)

\* C3: when at least one relay returned a positive ack, postToNostr returns a
\* result; publishedTo is the number of relays that returned a positive ack and
\* failedRelays contains every relay that exhausted its retries.
C3_PartialFailureTolerated ==
    (Completed /\ \E i \in Indices : PositiveAck(i)) =>
       /\ pc = "returned"
       /\ result.publishedTo = Cardinality({i \in Indices : PositiveAck(i)})
       /\ \A i \in Indices :
             Exhausted(i) => relays[i] \in NamesOf(result.failedRelays)

\* How many entries of a partition name relay u, and how many of the relays
\* whose sequence ended in phase ph are u.
EntriesNaming(entries, u) == Cardinality({k \in DOMAIN entries : entries[k].relay = u})
EndedNaming(ph, u) == Cardinality({i \in Indices : task[i].phase = ph /\ relays[i] = u})

Distinct(rs) == \A i, j \in DOMAIN rs : rs[i] = rs[j] => i = j

C5_ErrorCarriesOutcomes ==
    (pc = "thrown" /\ Indices # {}) =>
       /\ "failures" \in DOMAIN thrown
       /\ Len(thrown.failures) = Len(relays)

\* C6: postToNostr produces its outcome only after every relay's retry sequence
\* is terminal: no attempt in flight, no backoff pending, no attempt remaining.
C6_SettleAll ==
    pc \in {"returned", "thrown"} =>
       \A i \in Indices :
          /\ Terminal(i)
          /\ conn[i].hasResolved
          /\ ~conn[i].timeoutId
          /\ task[i].delay = 0

C6_Witness ==
    /\ pc = "returned"
    /\ \E i, j \in Indices :
          /\ ackAt[i] = 1
          /\ Exhausted(j)
          /\ task[j].attempt >= 2

\* The frame ["OK", id, true, ""] of the signed event.
OkFrame == [parses |-> TRUE, json |-> <<"OK", EventId, "true", "">>]

InFlight(i) == task[i].phase = "attempt" /\ ~conn[i].hasResolved

\* What relay i can do next, read from relay i's own state alone.
OwnStepsEnabled(i) ==
    /\ InFlight(i) => ENABLED Timeout(i)
    /\ (InFlight(i) /\ conn[i].readyState = "CONNECTING") =>
          ENABLED WsOpen(i) /\ ENABLED WsError(i)
    /\ (InFlight(i) /\ conn[i].readyState = "OPEN") =>
          ENABLED WsMessage(i, OkFrame) /\ ENABLED WsError(i)
    /\ task[i].phase = "backoff" => ENABLED BackoffElapsed(i)

\* Everything the model holds of relay i.
RelayState(i) == <<conn[i], task[i], ackAt[i], waited[i]>>

\* A step taken while publishing changes the state of at most one relay.
OthersUntouched ==
    pc = "publishing" =>
       \A i, j \in Indices :
          i # j => (RelayState(i)' = RelayState(i) \/ RelayState(j)' = RelayState(j))

\* C7: relay retry sequences are independent: while the call is publishing,
\* whether relay A can open, receive its ack, time out, start or end its backoff
\* depends on A's own state only, whatever state any other relay is in, and a
\* step of A changes nothing of another relay.
C7_RelaysIndependent ==
    /\ [](pc = "publishing" => \A i \in Indices : OwnStepsEnabled(i))
    /\ [][OthersUntouched]_vars

C7_Witness ==
    /\ pc = "publishing"
    /\ \E a, b \in Indices :
          /\ Terminal(a)
          /\ InFlight(b)
          /\ conn[b].readyState = "OPEN"

\* The backoff delays of the claim, in ms, after failed attempt 1, 2, ...
BackoffTable == <<1000, 2000, 4000, 8000, 16000, 32000, 64000, 128000, 256000>>
RECURSIVE BackoffSum(_)
BackoffSum(k) == IF k = 0 THEN 0 ELSE BackoffSum(k - 1) + BackoffTable[k]

\* C8: publishToRelay does not retry after an acknowledgment: once an attempt
\* received a matching OK frame, of either flag, that ack is what it returned, no
\* further connection is opened and no backoff is started; a backoff or a later
\* attempt follows only attempts that failed with an error.
C8_NoRetryAfterAck ==
    \A i \in DOMAIN task :
       /\ ackAt[i] # 0 =>
             /\ task[i].phase = "returned"
             /\ task[i].attempt = ackAt[i]
             /\ task[i].value.relay = relays[i]
             /\ task[i].delay = 0
             /\ waited[i] = BackoffSum(ackAt[i] - 1)
             /\ conn[i].readyState \notin {"CONNECTING", "OPEN"}
       /\ task[i].phase = "returned" => ackAt[i] # 0

C8_Witness ==
    \E i \in DOMAIN task :
       /\ maxRetries >= 2
       /\ ackAt[i] = 1
       /\ ~task[i].value.success
       /\ task[i].phase = "returned"

\* C9: publishToRelay makes at least 1 and at most maxRetries attempts; the
\* first attempt starts without delay, and after failed attempt k < maxRetries
\* it waits exactly 1000 * 2^(k-1) ms before attempt k+1; an ack in attempt k
\* is returned after exactly k attempts.
C9_AttemptsAndBackoff ==
    \A i \in DOMAIN task :
       /\ 1 <= task[i].attempt
       /\ task[i].attempt <= maxRetries
       /\ waited[i] = BackoffSum(task[i].attempt - 1)
       /\ task[i].phase = "backoff" =>
             /\ task[i].attempt < maxRetries
             /\ task[i].delay = BackoffTable[task[i].attempt]
       /\ task[i].phase # "backoff" => task[i].delay = 0
       /\ ackAt[i] # 0 => task[i].phase = "returned" /\ task[i].attempt = ackAt[i]

C9_Witness ==
    \E i \in DOMAIN task :
       /\ maxRetries = 3
       /\ ackAt[i] = 3
       /\ task[i].phase = "returned"
       /\ task[i].value.success
       /\ waited[i] = 3000

Pending(i) == i \in DOMAIN task /\ InFlight(i)

\* The last callback was kind, run while the attempt was unsettled.
RanWhilePending(kind) == obs.event = kind /\ obs.wasPending

\* C11: every connectAndPublish attempt terminates: whatever the relay does
\* (never opens, opens and stays silent, sends only non-matching frames, closes
\* without an ack or error), an unsettled attempt has its timer armed and settles
\* no later than when the timer fires; a timer that fires on an unsettled attempt
\* fails it with the timeout error.
C11_AttemptTerminates ==
    /\ [](\A i \in DOMAIN conn :
             /\ InFlight(i) => conn[i].timeoutId
             /\ RanWhilePending("timer") =>
                   /\ conn[i].hasResolved
                   /\ ackAt[i] = 0
                   /\ task[i].phase \in {"backoff", "thrown"}
                   /\ task[i].phase = "thrown" =>
                         task[i].reason = MakeError("timeout", relays[i], task[i].attempt))
    /\ \A i \in 1..MaxRelays : Pending(i) ~> ~Pending(i)

C11_Witness ==
    \E i \in DOMAIN conn :
       /\ RanWhilePending("timer")
       /\ conn[i].readyState = "CLOSED"
       /\ task[i].phase = "thrown"
       /\ task[i].reason.kind = "timeout"

\* A step on a settled attempt leaves its outcome, its release count, its
\* timer and its ack alone.
LateEventsInert ==
    \A i \in DOMAIN conn :
       (conn[i].hasResolved /\ conn'[i].hasResolved) =>
          /\ task'[i] = task[i]
          /\ ackAt'[i] = ackAt[i]
          /\ conn'[i].cleanups = conn[i].cleanups
          /\ conn'[i].timeoutId = conn[i].timeoutId

\* C12: each attempt settles exactly once and releases its connection exactly
\* once on every exit path: a settled attempt has run cleanup() once, its timer
\* is cancelled and its socket is neither OPEN nor CONNECTING; an unsettled one
\* has not run cleanup(); a message, error or timer event after settlement
\* changes neither the outcome nor the release count.
C12_SettlesAndReleasesOnce ==
    /\ [](\A i \in DOMAIN conn :
             /\ conn[i].hasResolved =>
                   /\ conn[i].readyState \notin {"OPEN", "CONNECTING"}
                   /\ ~conn[i].timeoutId
                   /\ conn[i].cleanups = 1
                   /\ task[i].phase # "attempt"
             /\ ~conn[i].hasResolved =>
                   /\ conn[i].cleanups = 0
                   /\ task[i].phase = "attempt")
    /\ [][LateEventsInert]_vars

C12_Witness ==
    \E i \in DOMAIN conn :
       /\ obs.event = "error"
       /\ ~obs.wasPending
       /\ conn[i].hasResolved
       /\ conn[i].cleanups = 1
       /\ ackAt[i] # 0

\* The frame is a JSON array whose first element is OK and whose second is the
\* id of the signed event.
MatchingAck(frame) ==
    /\ frame.parses
    /\ Len(frame.json) >= 2
    /\ frame.json[1] = "OK"
    /\ frame.json[2] = EventId

\* C13: a frame that does not parse, or whose type is not OK, or whose id
\* differs from the signed event's id, never settles the attempt: after it the
\* attempt is still unsettled, its timer armed and its socket open.
C13_NonMatchingIgnored ==
    \A i \in DOMAIN conn :
       (RanWhilePending("message") /\ ~MatchingAck(obs.frame)) =>
          /\ InFlight(i)
          /\ conn[i].timeoutId
          /\ conn[i].cleanups = 0
          /\ conn[i].readyState = "OPEN"
          /\ ackAt[i] = 0

C13_Witness ==
    \E i \in DOMAIN conn :
       /\ RanWhilePending("message")
       /\ obs.frame.json = <<"OK", OtherId, "true", "">>
       /\ InFlight(i)
       /\ task[i].attempt = 2

\* C14: a frame that begins with OK and the matching id but has fewer or more
\* than 4 elements does not settle the attempt.
C14_OnlyFourElementAck ==
    \A i \in DOMAIN conn :
       (RanWhilePending("message") /\ obs.frame.parses /\ Len(obs.frame.json) # 4) =>
          /\ InFlight(i)
          /\ ackAt[i] = 0

\* ------------------------------------------------ calculatePow (PowSpec)
ZeroBitsOfDigit(x) ==
    IF x = 0 THEN 4 ELSE IF x = 1 THEN 3 ELSE IF x <= 3 THEN 2 ELSE IF x <= 7 THEN 1 ELSE 0

\* Leading zero bits of a hash read as a big-endian bit string.
RECURSIVE LeadingZeroBits(_)
LeadingZeroBits(hash) ==
    IF hash = <<>> THEN 0
    ELSE IF Head(hash) = 0 THEN 4 + LeadingZeroBits(Tail(hash))
         ELSE ZeroBitsOfDigit(Head(hash))

\* calculatePow has returned.
Mined == pc \in {"mined", "publishing"}

C16_SmallestNonce ==
    (Mined /\ powDifficulty > 0) =>
       \A n \in 0..(pow.nonce - 2) :
          LeadingZeroBits(hashOf[String(n)]) < powDifficulty

\* No nonce the loop can try meets the d-bit predicate.
NoNonceQualifies ==
    \A t \in NonceTexts : LeadingZeroBits(hashOf[t]) < powDifficulty

\* The Error postToNostr throws when calculatePow gave up.
PowFailure ==
    [message |-> "Proof of Work failed: POW calculation exceeded maximum attempts for difficulty "
                    \o String(powDifficulty)]

\* C17: calculatePow always terminates: the loop never goes beyond its ceiling,
\* a call that is mining ends mined or thrown, and under a hash function with no
\* qualifying nonce it ends after the ceiling's number of hashes with the
\* exceeded-maximum-attempts error, which aborts postToNostr before any
\* connection is opened.
C17_PowTerminates ==
    /\ [](pow.nonce <= MaxPowAttempts + 1)
    /\ (pc = "mining") ~> (pc \in {"mined", "thrown"})
    /\ (pc = "mining" /\ NoNonceQualifies) ~> (pc = "thrown")
    /\ []((pc = "thrown" /\ pow # NoPow) =>
             /\ thrown = PowFailure
             /\ pow.hashes = MaxPowAttempts + 1
             /\ powReturn = NoEvent
             /\ conn = <<>>
             /\ task = <<>>)

C17_Witness ==
    /\ pc = "thrown"
    /\ NoNonceQualifies
    /\ powDifficulty = 1
    /\ pow.hashes = MaxPowAttempts + 1

\* C18: for d = 0 calculatePow returns the input event unchanged, with no nonce
\* tag added and without computing any hash.
C18_ZeroDifficultyIdentity ==
    (powDifficulty = 0 /\ pc \notin {"idle", "prepared", "thrown"}) =>
       /\ Mined
       /\ powReturn = event
       /\ event \in EventInputs
       /\ NonceTags(powReturn) = <<>>
       /\ pow = NoPow

C18_Witness ==
    /\ pc = "mined"
    /\ powDifficulty = 0
    /\ powReturn.tags = << <<"t", "nostr">> >>

\* C19: powDifficulty is clamped to 0-32: for every supplied value the
\* difficulty used lies in 0..32 and equals the supplied value whenever that is
\* an integer in 0..32, 0 included.
C19_DifficultyClamped ==
    (obs.event = "call" /\ relays # <<>>) =>
       /\ powDifficulty \in 0..32
       /\ obs.optPowDifficulty \in 0..32 => powDifficulty = obs.optPowDifficulty

\* No entry of the array is a wss:// URL.
NoWssEntry(optRelays) == \A k \in DOMAIN optRelays : optRelays[k].scheme # "wss"

\* C20: when options.relays is an array that is empty or holds no wss:// URL,
\* postToNostr fails at once with the no-valid-relay error: no event is built,
\* nothing is mined or signed and no connection is opened.
C20_EmptyRelayListFails ==
    (obs.event = "call" /\ NoWssEntry(obs.optRelays)) =>
       /\ pc = "thrown"
       /\ thrown = [message |-> "No valid relay URLs provided"]
       /\ event = NoEvent
       /\ pow = NoPow
       /\ powReturn = NoEvent
       /\ conn = <<>>
       /\ task = <<>>

C20_Witness ==
    /\ pc = "thrown"
    /\ obs.event = "call"
    /\ obs.optRelays = <<RelayBad>>

\* C21: during calculatePow with d > 0 the number of consecutive hash attempts
\* made without yielding control never exceeds the batch size, from the start
\* of mining and however fast the wall clock advances.
C21_YieldEveryBatch == pow.sinceYield <= YieldBatch

\* The step replaces relay i's connection by that of a new attempt.
NewConnection(i) ==
    \/ task'[i].attempt # task[i].attempt
    \/ conn[i].hasResolved /\ ~conn'[i].hasResolved

\* C22: attempts to a single relay are strictly sequential: a socket that is
\* open or connecting belongs to the relay's current, unsettled attempt, and the
\* connection of attempt k+1 is created only by the step in which the backoff
\* after attempt k elapses, attempt k having settled with an error and released
\* its connection.
C22_AttemptsSequential ==
    /\ [](\A i \in DOMAIN conn :
             conn[i].readyState \in {"OPEN", "CONNECTING"} =>
                /\ task[i].phase = "attempt"
                /\ ~conn[i].hasResolved)
    /\ [][\A i \in DOMAIN task :
             NewConnection(i) =>
                /\ task'[i].attempt = task[i].attempt + 1
                /\ conn'[i] = NewConn
                /\ obs'.event = "backoff"
                /\ task[i].phase = "backoff"
                /\ ackAt[i] = 0
                /\ conn[i].hasResolved
                /\ conn[i].cleanups = 1
                /\ ~conn[i].timeoutId
                /\ conn[i].readyState \notin {"OPEN", "CONNECTING"}
                /\ waited'[i] = waited[i] + BackoffTable[task[i].attempt]]_vars

C22_Witness ==
    \E i \in DOMAIN conn :
       /\ obs.event = "backoff"
       /\ task[i].attempt = 3
       /\ conn[i] = NewConn
       /\ waited[i] = 3000

\* The hash of the last iteration meets the target the loop tests.
LastHashQualifies ==
    /\ pow.hashes > 0
    /\ StartsWith(pow.hash, TargetPrefix(powDifficulty))

\* C23: calculatePow never discards a qualifying hash: an iteration whose hash
\* meets the target, the last one the ceiling allows included, returns the mined
\* event, and the exceeded-maximum-attempts error is raised only when every hash
\* computed so far failed the target.
C23_NoQualifyingHashDiscarded ==
    /\ LastHashQualifies => (Mined /\ powReturn = pow.workEvent)
    /\ (pc = "thrown" /\ pow # NoPow) =>
          \A n \in 0..(pow.nonce - 1) :
             ~StartsWith(GetEventHash(hashOf, [pow.workEvent EXCEPT
                                                 !.tags = << NonceTag(n, powDifficulty) >>]),
                         TargetPrefix(powDifficulty))

====
